---- MODULE Spec2Model ----
(***************************************************************************)
(* A model of the IRC weather bot of src/src/main.rs: the reconnecting     *)
(* supervisor (run / connect_and_run), the dispatcher (handle_message),    *)
(* the query resolver with its per-nick memory (parse_weather_query) and   *)
(* the chunked reply (send_weather_data).                                  *)
(*                                                                         *)
(* A text (a Rust String / &str) is a sequence of characters; a character  *)
(* is a one-character string.  Option<T> is a record tagged None or Some.  *)
(* HashMap<String, String> is a function whose DOMAIN is its key set.      *)
(***************************************************************************)
EXTENDS Integers, Sequences, FiniteSets, TLC

VARIABLES
    pc,              \* position of the single task inside run()
    nick_locations,  \* WeatherBot.nick_locations
    trace,           \* history: attempts and delays since the last session ended
    fails,           \* history: establishment failures in a row
    event,           \* what stream.next() yielded last
    channel,         \* handle_message: target of the last PRIVMSG with a nick
    nick,            \* handle_message: its sender nickname
    content,         \* handle_message: its text
    query,           \* result of the last parse_weather_query call
    before,          \* history: nick_locations when that call was entered
    full_response,   \* send_weather_data: the text to send for the last query
    outbox,          \* texts handed to send_privmsg for the last query, in order
    reply,           \* how send_weather_data ended for the last query
    last_resolved    \* history: per nick, the query its last place/zip command returned

vars == <<pc, nick_locations, trace, fails, event, channel, nick, content,
          query, before, full_response, outbox, reply, last_resolved>>

-----------------------------------------------------------------------------
(* Characters and character classes of the three regular expressions.      *)

Alpha == {"a","b","c","d","e","f","g","h","i","j","k","l","m",
          "n","o","p","q","r","s","t","u","v","w","x","y","z",
          "A","B","C","D","E","F","G","H","I","J","K","L","M",
          "N","O","P","Q","R","S","T","U","V","W","X","Y","Z"}

Digit == {"0","1","2","3","4","5","6","7","8","9"}

\* \s : the space and the tab stand for the whitespace an IRC line can carry
Whitespace == {" ", "\t"}

\* [a-zA-Z,\s]
IsLocationChar(c) == c \in Alpha \cup {","} \cup Whitespace

\* \d
IsZipChar(c) == c \in Digit

\* [^\d\s]
IsNickChar(c) == c \notin Digit \cup Whitespace

-----------------------------------------------------------------------------
(* Option, HashMap and String helpers.                                     *)

None == [tag |-> "None"]

Some(v) == [tag |-> "Some", val |-> v]

\* HashMap::new()
HashMapNew == << >>

\* HashMap::get(k).cloned()
Get(m, k) == IF k \in DOMAIN m THEN Some(m[k]) ELSE None

\* HashMap::insert(k, v)
Insert(m, k, v) == [x \in DOMAIN m \cup {k} |-> IF x = k THEN v ELSE m[x]]

\* str::replace(from, to) for one-character patterns
Replace(s, from, to) == [i \in 1..Len(s) |-> IF s[i] = from THEN to ELSE s[i]]

Min(S) == CHOOSE x \in S : \A y \in S : x <= y

Max(S) == CHOOSE x \in S : \A y \in S : x >= y

-----------------------------------------------------------------------------
(* Regex::captures for the patterns "!w (C+)": the search is unanchored,   *)
(* takes the leftmost position where "!w " is followed by a character of   *)
(* the class, and the greedy group captures the longest run of the class.  *)

\* membership in the character class of the pattern named cls
InClass(cls, c) ==
    CASE cls = "location" -> IsLocationChar(c)
      [] cls = "zip"      -> IsZipChar(c)
      [] cls = "nick"     -> IsNickChar(c)

\* positions where the literal "!w " is followed by at least one class character
MatchStarts(cls, text) ==
    {i \in 1..Len(text) :
        /\ i + 3 <= Len(text)
        /\ text[i] = "!"
        /\ text[i + 1] = "w"
        /\ text[i + 2] = " "
        /\ InClass(cls, text[i + 3])}

\* last index of the run of class characters that starts at index from
RunEnd(cls, text, from) ==
    Max({j \in from..Len(text) : \A k \in from..j : InClass(cls, text[k])})

Captures(cls, text) ==
    IF MatchStarts(cls, text) = {}
    THEN None
    ELSE LET i == Min(MatchStarts(cls, text))
         IN  Some(SubSeq(text, i + 3, RunEnd(cls, text, i + 3)))

re_location(text) == Captures("location", text)

re_zip(text) == Captures("zip", text)

re_nick(text) == Captures("nick", text)

-----------------------------------------------------------------------------
(* parse_weather_query: the returned Option and the memory it leaves.      *)

Trigger == <<"!", "w">>

\* a normalisation that forgets the commas
LocationQuerySpacesOnly(cap) == Replace(cap, " ", "+")

\* caps[1].replace(" ", "+").replace(",", "+")
LocationQuery(cap) == Replace(Replace(cap, " ", "+"), ",", "+")

\* format!("{},+USA", &caps[1])
ZipQuery(cap) == cap \o <<",", "+", "U", "S", "A">>

\* a chain that tries the nickname pattern before the place pattern
BranchNickFirst(text) ==
    IF text = Trigger THEN "bare"
    ELSE IF re_zip(text) # None THEN "zip"
    ELSE IF re_nick(text) # None THEN "nick"
    ELSE IF re_location(text) # None THEN "location"
    ELSE "none"

\* which branch of the if / else-if chain is taken
Branch(text) ==
    IF text = Trigger THEN "bare"
    ELSE IF re_location(text) # None THEN "location"
    ELSE IF re_zip(text) # None THEN "zip"
    ELSE IF re_nick(text) # None THEN "nick"
    ELSE "none"

\* a lookup that takes the entry out of the map (remove instead of get)
BareBranchTakes(locs, n) ==
    [result |-> Get(locs, n), locs |-> [x \in DOMAIN locs \ {n} |-> locs[x]]]

\* content == "!w": self.nick_locations.get(nick).cloned()
BareBranch(locs, n) == [result |-> Get(locs, n), locs |-> locs]

LocationBranch(locs, text, n) ==
    LET q == LocationQuery(re_location(text).val)
    IN  [result |-> Some(q), locs |-> Insert(locs, n, q)]

\* a zip branch that forgets the insert
ZipBranchNoStore(locs, text, n) ==
    [result |-> Some(ZipQuery(re_zip(text).val)), locs |-> locs]

ZipBranch(locs, text, n) ==
    LET q == ZipQuery(re_zip(text).val)
    IN  [result |-> Some(q), locs |-> Insert(locs, n, q)]

\* a nickname branch that remembers what it found under the requester
NickBranchStores(locs, text, n) ==
    LET found == Get(locs, re_nick(text).val)
    IN  [result |-> found,
         locs |-> IF found = None THEN locs ELSE Insert(locs, n, found.val)]

\* n, the requester, plays no part in this branch
NickBranch(locs, text, n) ==
    [result |-> Get(locs, re_nick(text).val), locs |-> locs]

parse_weather_query(locs, text, n) ==
    CASE Branch(text) = "bare"     -> BareBranch(locs, n)
      [] Branch(text) = "location" -> LocationBranch(locs, text, n)
      [] Branch(text) = "zip"      -> ZipBranch(locs, text, n)
      [] Branch(text) = "nick"     -> NickBranch(locs, text, n)
      [] OTHER                     -> [result |-> None, locs |-> locs]

-----------------------------------------------------------------------------
(* send_weather_data: the texts it builds and how it cuts them.            *)

\* the 400 of chunks(400)
ChunkSize == 400

\* "'s weather: " of format!("{}'s weather: {}", nick, response)
WeatherLabel == <<"'", "s", " ", "w", "e", "a", "t", "h", "e", "r", ":", " ">>

FullResponse(n, response) == n \o WeatherLabel \o response

\* format!("Error: Could not get weather data for {}. {}", query, e)
ErrorText(q, e) ==
    <<"E", "r", "r", "o", "r", ":", " ", "C", "o", "u", "l", "d", " ", "n", "o", "t", " ", "g", "e", "t", " ", "w", "e", "a", "t", "h", "e", "r", " ", "d", "a", "t", "a", " ", "f", "o", "r", " ">>
    \o q \o <<".", " ">> \o e

\* a cut that loses the character at each boundary
ChunksDropping(text, size) ==
    [k \in 1..((Len(text) + size - 1) \div size) |->
        SubSeq(text, (k - 1) * size + 1, Min({k * size - 1, Len(text)}))]

\* a cut that answers an empty text with one empty piece
ChunksOneEmpty(text, size) ==
    IF text = << >>
    THEN << << >> >>
    ELSE [k \in 1..((Len(text) + size - 1) \div size) |->
             SubSeq(text, (k - 1) * size + 1, Min({k * size, Len(text)}))]

\* full_response.chars().collect::<Vec<char>>().chunks(400), each collected
\* back into a String: consecutive pieces of size characters, the last one
\* possibly shorter; no piece at all for an empty text
Chunks(text, size) ==
    [k \in 1..((Len(text) + size - 1) \div size) |->
        SubSeq(text, (k - 1) * size + 1, Min({k * size, Len(text)}))]

\* the characters format_response draws its output from: letters, digits,
\* punctuation, the colour control code (^) and its reset (~), a glyph (*)
Glyphs == <<"C", "o", ":", " ", "^", "0", "4", "*", "7", "2", "F", "~", "|">>

\* a rendered forecast of n characters
Rendered(n) == [i \in 1..n |-> Glyphs[((i - 1) % Len(Glyphs)) + 1]]

-----------------------------------------------------------------------------
(* run: what the loop does with the result of connect_and_run.             *)

\* a loop that gives up on an error
AfterSessionReturns(result) == IF result = "Err" THEN "returned" ELSE "sleep"

\* a loop that retries at once after an error
AfterSessionNoDelay(result) == IF result = "Err" THEN "run" ELSE "sleep"

\* both arms of the match print and fall through to the sleep
AfterSession(result) == "sleep"

\* sleep(Duration::from_secs(5))
ReconnectDelaySecs == 5

AttemptMark == [kind |-> "attempt", secs |-> 0]

DelayMark == [kind |-> "delay", secs |-> ReconnectDelaySecs]

-----------------------------------------------------------------------------
(* Bounds and the inputs the environment can supply.                       *)

\* establishment failures in a row the network produces
MaxFails == 2

\* length of the generated command arguments
MaxArgLen == 2

Bob == <<"b", "o", "b">>

UnderBob == <<"_", "b", "o", "b">>

Nicks == {Bob, UnderBob}

Channels == {"#weather"}

Bare == Trigger

NewYorkNY == <<"!", "w", " ", "N", "e", "w", " ", "Y", "o", "r", "k", ",", " ", "N", "Y">>

Zip10001 == <<"!", "w", " ", "1", "0", "0", "0", "1">>

AskBob == <<"!", "w", " ", "b", "o", "b">>

AskUnderBob == <<"!", "w", " ", "_", "b", "o", "b">>

\* the command texts of a session
SessionContents == {Bare, NewYorkNY, Zip10001, AskBob, AskUnderBob}

\* lengths of the rendered forecasts: short, and around one and two chunks
ResponseLens == {20, 385, 786}

Responses == {Rendered(n) : n \in ResponseLens}

FetchErrors == {<<"t", "i", "m", "e", "o", "u", "t">>}

-----------------------------------------------------------------------------
(* The state after WeatherBot::new, when main calls run().                 *)

Init ==
    /\ pc = "run"
    /\ nick_locations = HashMapNew
    /\ trace = << >>
    /\ fails = 0
    /\ event = "none"
    /\ channel = ""
    /\ nick = << >>
    /\ content = << >>
    /\ query = None
    /\ before = HashMapNew
    /\ full_response = << >>
    /\ outbox = << >>
    /\ reply = "none"
    /\ last_resolved = << >>

\* the record of the message being handled; its locals are gone once the
\* task reads the next event or goes round the loop of run
handler_vars == <<channel, nick, content, query, before, full_response, outbox,
                  reply>>

HandlerIdle ==
    /\ channel' = ""
    /\ nick' = << >>
    /\ content' = << >>
    /\ query' = None
    /\ before' = HashMapNew
    /\ full_response' = << >>
    /\ outbox' = << >>
    /\ reply' = "none"

-----------------------------------------------------------------------------
(* run and the establishment part of connect_and_run.                      *)

\* top of the loop: connect_and_run is called, Client::from_config awaited
Attempt ==
    /\ pc = "run"
    /\ pc' = "connecting"
    /\ trace' = Append(trace, AttemptMark)
    /\ UNCHANGED <<nick_locations, fails, event, handler_vars, last_resolved>>

\* Client::from_config(..).await? returns Err
ConnectFail ==
    /\ pc = "connecting"
    /\ fails < MaxFails
    /\ pc' = AfterSession("Err")
    /\ fails' = fails + 1
    /\ event' = "connect_error"
    /\ UNCHANGED <<nick_locations, trace, handler_vars, last_resolved>>

\* client.identify()? returns Err
IdentifyFail ==
    /\ pc = "connecting"
    /\ fails < MaxFails
    /\ pc' = AfterSession("Err")
    /\ fails' = fails + 1
    /\ event' = "identify_error"
    /\ UNCHANGED <<nick_locations, trace, handler_vars, last_resolved>>

\* from_config, identify and stream succeed: the while-let loop is entered
Established ==
    /\ pc = "connecting"
    /\ pc' = "next"
    /\ event' = "established"
    /\ UNCHANGED <<nick_locations, trace, fails, handler_vars, last_resolved>>

\* sleep(Duration::from_secs(5)) elapses: back to the top of the loop
Wake ==
    /\ pc = "sleep"
    /\ pc' = "run"
    /\ trace' = Append(trace, DelayMark)
    /\ HandlerIdle
    /\ UNCHANGED <<nick_locations, fails, event, last_resolved>>

-----------------------------------------------------------------------------
(* The while-let loop of connect_and_run and handle_message.               *)

\* a session end that starts the next session with a fresh memory
StreamEndForgets ==
    /\ pc = "next"
    /\ pc' = AfterSession("Ok")
    /\ event' = "end"
    /\ trace' = << >>
    /\ fails' = 0
    /\ HandlerIdle
    /\ nick_locations' = HashMapNew
    /\ UNCHANGED last_resolved

\* stream.next() yields None: connect_and_run returns Ok(())
StreamEnd ==
    /\ pc = "next"
    /\ pc' = AfterSession("Ok")
    /\ event' = "end"
    /\ trace' = << >>
    /\ fails' = 0
    /\ HandlerIdle
    /\ UNCHANGED <<nick_locations, last_resolved>>

\* a loop that propagates a read error with ?
ReadErrorEndsSession ==
    /\ pc = "next"
    /\ pc' = AfterSession("Err")
    /\ event' = "read_error"
    /\ trace' = << >>
    /\ fails' = 0
    /\ HandlerIdle
    /\ UNCHANGED <<nick_locations, last_resolved>>

\* stream.next() yields Some(Err(e)): logged, the loop goes on
ReadError ==
    /\ pc = "next"
    /\ pc' = "next"
    /\ event' = "read_error"
    /\ HandlerIdle
    /\ UNCHANGED <<nick_locations, trace, fails, last_resolved>>

\* a message whose command is not PRIVMSG: handle_message returns Ok(())
OtherCommand ==
    /\ pc = "next"
    /\ pc' = "next"
    /\ event' = "other"
    /\ HandlerIdle
    /\ UNCHANGED <<nick_locations, trace, fails, last_resolved>>

\* a dispatcher that resolves a message without nickname under an empty one
PrivmsgNoNickResolved ==
    /\ pc = "next"
    /\ pc' = "next"
    /\ event' = "privmsg_no_nick"
    /\ HandlerIdle
    /\ nick_locations' = parse_weather_query(nick_locations, Zip10001, << >>).locs
    /\ UNCHANGED <<trace, fails, last_resolved>>

\* a PRIVMSG whose prefix is absent or not Prefix::Nickname
PrivmsgNoNick ==
    /\ pc = "next"
    /\ pc' = "next"
    /\ event' = "privmsg_no_nick"
    /\ HandlerIdle
    /\ UNCHANGED <<nick_locations, trace, fails, last_resolved>>

\* a handler that leaves the reply to a spawned task and returns at once
PrivmsgSpawnsReply(ch, n, c) ==
    /\ pc = "next"
    /\ event' = "privmsg"
    /\ channel' = ch
    /\ nick' = n
    /\ content' = c
    /\ before' = nick_locations
    /\ LET r == parse_weather_query(nick_locations, c, n)
       IN  /\ query' = r.result
           /\ nick_locations' = r.locs
           /\ pc' = "next"
           /\ reply' = IF r.result = None THEN "none" ELSE "pending"
           /\ last_resolved' =
                 IF Branch(c) \in {"location", "zip"}
                 THEN Insert(last_resolved, n, r.result.val)
                 ELSE last_resolved
    /\ full_response' = << >>
    /\ outbox' = << >>
    /\ UNCHANGED <<trace, fails>>

\* a PRIVMSG(ch, c) from nickname n: parse_weather_query, then either
\* nothing (None) or send_weather_data, which awaits get_weather
Privmsg(ch, n, c) ==
    /\ pc = "next"
    /\ event' = "privmsg"
    /\ channel' = ch
    /\ nick' = n
    /\ content' = c
    /\ before' = nick_locations
    /\ LET r == parse_weather_query(nick_locations, c, n)
       IN  /\ query' = r.result
           /\ nick_locations' = r.locs
           /\ pc' = IF r.result = None THEN "next" ELSE "fetch"
           /\ reply' = IF r.result = None THEN "none" ELSE "pending"
           /\ last_resolved' =
                 IF Branch(c) \in {"location", "zip"}
                 THEN Insert(last_resolved, n, r.result.val)
                 ELSE last_resolved
    /\ full_response' = << >>
    /\ outbox' = << >>
    /\ UNCHANGED <<trace, fails>>

-----------------------------------------------------------------------------
(* send_weather_data once get_weather has answered.                        *)

\* Ok(data): the rendered text is cut and every send_privmsg succeeds
ReplySent(response) ==
    /\ pc = "fetch"
    /\ full_response' = FullResponse(nick, response)
    /\ outbox' = Chunks(full_response', ChunkSize)
    /\ reply' = "sent"
    /\ pc' = "next"
    /\ UNCHANGED <<nick_locations, trace, fails, event, channel, nick, content,
                   query, before, last_resolved>>

\* a loop that skips the chunk whose send failed and carries on
ReplySendFailSkipped(response, k) ==
    /\ pc = "fetch"
    /\ full_response' = FullResponse(nick, response)
    /\ k \in 1..Len(Chunks(full_response', ChunkSize))
    /\ outbox' = SubSeq(Chunks(full_response', ChunkSize), 1, k - 1)
                 \o SubSeq(Chunks(full_response', ChunkSize), k + 1,
                           Len(Chunks(full_response', ChunkSize)))
    /\ reply' = "send_failed"
    /\ pc' = "next"
    /\ UNCHANGED <<nick_locations, trace, fails, event, channel, nick, content,
                   query, before, last_resolved>>

\* Ok(data): the k-th send_privmsg returns Err, which ? propagates out of
\* send_weather_data, handle_message and connect_and_run
ReplySendFail(response, k) ==
    /\ pc = "fetch"
    /\ full_response' = FullResponse(nick, response)
    /\ k \in 1..Len(Chunks(full_response', ChunkSize))
    /\ outbox' = SubSeq(Chunks(full_response', ChunkSize), 1, k - 1)
    /\ reply' = "send_failed"
    /\ pc' = AfterSession("Err")
    /\ trace' = << >>
    /\ fails' = 0
    /\ UNCHANGED <<nick_locations, event, channel, nick, content, query, before,
                   last_resolved>>

\* a report that is sent and then returns the fetch error to the caller
FetchErrorReportedThenRaised(e) ==
    /\ pc = "fetch"
    /\ outbox' = <<ErrorText(query.val, e)>>
    /\ reply' = "error_reported"
    /\ pc' = AfterSession("Err")
    /\ trace' = << >>
    /\ fails' = 0
    /\ UNCHANGED <<nick_locations, event, channel, nick, content, query, before,
                   full_response, last_resolved>>

\* a report that puts the requester's entry back to what it was
FetchErrorReportedRollsBack(e) ==
    /\ pc = "fetch"
    /\ outbox' = <<ErrorText(query.val, e)>>
    /\ reply' = "error_reported"
    /\ pc' = "next"
    /\ nick_locations' = before
    /\ UNCHANGED <<trace, fails, event, channel, nick, content, query, before,
                   full_response, last_resolved>>

\* Err(e): one message reports the query and the error
FetchErrorReported(e) ==
    /\ pc = "fetch"
    /\ outbox' = <<ErrorText(query.val, e)>>
    /\ reply' = "error_reported"
    /\ pc' = "next"
    /\ UNCHANGED <<nick_locations, trace, fails, event, channel, nick, content,
                   query, before, full_response, last_resolved>>

\* Err(e), and the send_privmsg of the report returns Err too
FetchErrorSendFail(e) ==
    /\ pc = "fetch"
    /\ outbox' = << >>
    /\ reply' = "error_send_failed"
    /\ pc' = AfterSession("Err")
    /\ trace' = << >>
    /\ fails' = 0
    /\ UNCHANGED <<nick_locations, event, channel, nick, content, query, before,
                   full_response, last_resolved>>

-----------------------------------------------------------------------------

Next ==
    \/ Attempt
    \/ ConnectFail
    \/ IdentifyFail
    \/ Established
    \/ Wake
    \/ StreamEnd
    \/ ReadError
    \/ OtherCommand
    \/ PrivmsgNoNick
    \/ \E ch \in Channels, n \in Nicks, c \in SessionContents : Privmsg(ch, n, c)
    \/ \E response \in Responses : ReplySent(response)
    \/ \E response \in Responses, k \in 1..3 : ReplySendFail(response, k)
    \/ \E e \in FetchErrors : FetchErrorReported(e)
    \/ \E e \in FetchErrors : FetchErrorSendFail(e)

Spec == Init /\ [][Next]_vars

\* the timer of sleep fires and the call at the top of the loop is made
LiveSpec == Spec /\ WF_vars(Wake) /\ WF_vars(Attempt)

-----------------------------------------------------------------------------
(* The resolver on its own: one PRIVMSG handled by an active session whose *)
(* memory is any memory earlier commands can have left.                    *)

TriggerSp == Trigger \o <<" ">>

\* what the place and zip commands of a session store
StoredQueries ==
    {LocationQuery(re_location(NewYorkNY).val),
     ZipQuery(re_zip(Zip10001).val),
     LocationQuery(re_location(AskBob).val)}

Memories == UNION {[D -> StoredQueries] : D \in SUBSET Nicks}

ArgChars == {"b", "Y", ",", " ", "\t", "7", "_", "["}

GeneratedContents ==
    {TriggerSp \o arg : arg \in UNION {[1..k -> ArgChars] : k \in 1..MaxArgLen}}

ExampleContents ==
    {Bare, NewYorkNY, Zip10001, AskBob, AskUnderBob,
     <<"s", "a", "y", " ", "!", "w", " ", "p", "a", "r", "i", "s">>,
     <<"!", "w", " ", "p", "a", "r", "i", "s", "1", "2", "3">>,
     <<"!", "w", " ", "b", "o", "b", "_", "s", "m", "i", "t", "h">>,
     <<"!", "w", "p", "a", "r", "i", "s">>,
     <<"!", "w", "\t", "p", "a", "r", "i", "s">>,
     <<"!", "w", " ">>,
     <<"!", "w", " ", " ", "1", "0", "0", "0", "1">>,
     <<"!", "w", " ", "[", "b", "o", "b", "]">>,
     <<"!", "w", " ", "_", " ", "!", "w", " ", "b">>,
     << >>}

ResolveContents == ExampleContents \cup GeneratedContents

InitResolve ==
    /\ pc = "next"
    /\ nick_locations \in Memories
    /\ last_resolved = nick_locations
    /\ trace = <<AttemptMark>>
    /\ fails = 0
    /\ event = "established"
    /\ channel = ""
    /\ nick = << >>
    /\ content = << >>
    /\ query = None
    /\ before = HashMapNew
    /\ full_response = << >>
    /\ outbox = << >>
    /\ reply = "none"

Resolve(ch, n, c) ==
    /\ event = "established"
    /\ Privmsg(ch, n, c)

NextResolve ==
    \E ch \in Channels, n \in Nicks, c \in ResolveContents : Resolve(ch, n, c)

SpecResolve == InitResolve /\ [][NextResolve]_vars

-----------------------------------------------------------------------------
(* Vocabulary of the properties.                                           *)

\* the handler record describes a PRIVMSG from a nickname that was resolved
Resolved == event = "privmsg" /\ nick # << >>

InSession == pc \in {"next", "fetch"}

\* the text after "!w "
Arg(text) == SubSeq(text, 4, Len(text))

\* the text is "!w " followed by at least one more character
HasArg(text) == Len(text) >= 4 /\ SubSeq(text, 1, 3) = TriggerSp

\* "!w " + one or more letters, commas or whitespace, and nothing else
PlaceForm(text) ==
    /\ HasArg(text)
    /\ \A i \in 4..Len(text) :
          text[i] \in Alpha \/ text[i] = "," \/ text[i] \in Whitespace

\* "!w " + one or more digits, and nothing else
ZipForm(text) == HasArg(text) /\ \A i \in 4..Len(text) : text[i] \in Digit

\* "!w " + one token without digits or whitespace, and nothing else
TokenForm(text) ==
    /\ HasArg(text)
    /\ \A i \in 4..Len(text) : text[i] \notin Digit /\ text[i] \notin Whitespace

\* the text with every space and every comma turned into "+"
Plussed(text) ==
    [i \in 1..Len(text) |-> IF text[i] \in {" ", ","} THEN "+" ELSE text[i]]

RECURSIVE Concat(_)
Concat(pieces) ==
    IF pieces = << >> THEN << >> ELSE Head(pieces) \o Concat(Tail(pieces))

Count(kind, t) == Cardinality({i \in 1..Len(t) : t[i].kind = kind})

NewYorkPlusPlus == <<"N", "e", "w", "+", "Y", "o", "r", "k", "+", "+", "N", "Y">>

NewYorkCollapsed == <<"N", "e", "w", "+", "Y", "o", "r", "k", "+", "N", "Y">>

Zip10001Query == <<"1", "0", "0", "0", "1", ",", "+", "U", "S", "A">>

-----------------------------------------------------------------------------

\* a step in which an establishment or a session ends
SessionOutcomeStep ==
    \/ pc = "connecting" /\ event' \in {"connect_error", "identify_error"}
    \/ pc = "next" /\ event' = "end"
    \/ pc = "fetch" /\ reply' \in {"send_failed", "error_send_failed"}

(* C1: run never returns: every way a session or an establishment ends     *)
(* (from_config fails, identify fails, the stream ends, an error comes out *)
(* of message handling) leads to the sleep of the loop, and from the sleep *)
(* a new establishment attempt is eventually made.                         *)
C1_NeverReturnsAlwaysRetries ==
    /\ [](pc # "returned")
    /\ [][SessionOutcomeStep => pc' = "sleep"]_vars
    /\ (pc = "sleep") ~> (pc = "connecting")

\* a new attempt is under way after a session was lost to a failed send
C1_Witness ==
    /\ pc = "connecting"
    /\ event = "privmsg"
    /\ trace = <<DelayMark, AttemptMark>>

-----------------------------------------------------------------------------

\* every attempt but the last is followed by one 5 s delay and then an attempt
OneDelayBetweenAttempts(t) ==
    \A i \in 1..Len(t) :
        (t[i].kind = "attempt" /\ i < Len(t)) =>
            /\ t[i + 1] = [kind |-> "delay", secs |-> 5]
            /\ (i + 1 < Len(t) => t[i + 2].kind = "attempt")

(* C2: when a session is established after N failures in a row, exactly    *)
(* N+1 attempts were made, any two consecutive attempts are separated by   *)
(* exactly one delay of 5 seconds, and the loop can always go on: the      *)
(* sleep can always end and the next attempt can always be made.           *)
C2_AttemptsAndDelays ==
    /\ InSession =>
          /\ Count("attempt", trace) = fails + 1
          /\ trace[Len(trace)].kind = "attempt"
          /\ OneDelayBetweenAttempts(trace)
    /\ pc = "sleep" => ENABLED Wake
    /\ pc = "run" => ENABLED Attempt

\* established at the third attempt, after two failures
C2_Witness ==
    /\ pc = "next"
    /\ event = "established"
    /\ fails = 2
    /\ trace = <<AttemptMark, DelayMark, AttemptMark, DelayMark, AttemptMark>>

-----------------------------------------------------------------------------
(* C3: a bare "!w" from U returns what is stored under U, which is the     *)
(* query U's last place or zip command returned whatever other users did   *)
(* since, returns None when U has no entry, and leaves the memory as it    *)
(* was.                                                                    *)

C3_BareReadsOwnEntry ==
    (Resolved /\ content = Bare) =>
        /\ query = (IF nick \in DOMAIN before THEN Some(before[nick]) ELSE None)
        /\ query = (IF nick \in DOMAIN last_resolved
                    THEN Some(last_resolved[nick]) ELSE None)
        /\ nick_locations = before

\* bob repeats his zip query while _bob holds a different entry
C3_Witness ==
    /\ Resolved
    /\ content = Bare
    /\ nick = Bob
    /\ query = Some(Zip10001Query)
    /\ UnderBob \in DOMAIN nick_locations
    /\ nick_locations[UnderBob] = NewYorkPlusPlus

-----------------------------------------------------------------------------
(* C4: a text "!w " + one or more letters, commas or whitespace from U     *)
(* returns the text after "!w " with every space and comma turned into     *)
(* "+", stores it under U and changes no other entry, also when the text   *)
(* after "!w " is another user's nickname.                                 *)

C4_PlaceRule ==
    (Resolved /\ PlaceForm(content)) =>
        /\ query = Some(Plussed(Arg(content)))
        /\ DOMAIN nick_locations = DOMAIN before \cup {nick}
        /\ nick_locations[nick] = Plussed(Arg(content))
        /\ \A other \in DOMAIN before \ {nick} :
              nick_locations[other] = before[other]

\* _bob asks for "bob" while bob has an entry: the word is taken as a place
C4_Witness ==
    /\ Resolved
    /\ content = AskBob
    /\ nick = UnderBob
    /\ Bob \in DOMAIN before
    /\ UnderBob \in DOMAIN before
    /\ before[Bob] # Bob
    /\ before[UnderBob] # Bob
    /\ query = Some(Bob)

-----------------------------------------------------------------------------

\* the event read right after "!w New York, NY" was answered is a bare "!w"
\* from the same nick, and it yields q
RepeatAfterNewYork(q) ==
    (/\ Resolved
     /\ content = NewYorkNY
     /\ pc = "next"
     /\ event' = "privmsg"
     /\ content' = Bare
     /\ nick' = nick) => query' = Some(q)

(* C5: "!w New York, NY" from U yields "New+York++NY" (each space and each *)
(* comma becomes its own "+"), and a bare "!w" from U right after it       *)
(* yields the same query.                                                  *)
C5_NewYork ==
    /\ []((Resolved /\ content = NewYorkNY) => query = Some(NewYorkPlusPlus))
    /\ [][RepeatAfterNewYork(NewYorkPlusPlus)]_vars

\* C5 as written: the comma and the space collapse into one "+"
C5_AsWritten ==
    /\ []((Resolved /\ content = NewYorkNY) => query = Some(NewYorkCollapsed))
    /\ [][RepeatAfterNewYork(NewYorkCollapsed)]_vars

\* the reply to "!w New York, NY" is out and the next event can be read
C5_Witness ==
    /\ Resolved
    /\ content = NewYorkNY
    /\ query = Some(NewYorkPlusPlus)
    /\ nick_locations[nick] = NewYorkPlusPlus
    /\ reply = "sent"
    /\ pc = "next"

-----------------------------------------------------------------------------
(* C6: a text "!w " + one or more digits from U returns the digits         *)
(* followed by ",+USA", and U's entry is that value afterwards.            *)

C6_ZipRule ==
    /\ (Resolved /\ ZipForm(content)) =>
          /\ query = Some(Arg(content) \o <<",", "+", "U", "S", "A">>)
          /\ nick \in DOMAIN nick_locations
          /\ Some(nick_locations[nick]) = query
    /\ (Resolved /\ content = Zip10001) => query = Some(Zip10001Query)

\* "!w 10001" replaces an older entry of the requester
C6_Witness ==
    /\ Resolved
    /\ content = Zip10001
    /\ nick \in DOMAIN before
    /\ before[nick] = NewYorkPlusPlus
    /\ nick_locations[nick] = Zip10001Query

-----------------------------------------------------------------------------

\* "!w bob" was resolved for a requester who had not stored "bob", bob
\* having no entry
AskBobFresh ==
    /\ Resolved
    /\ content = AskBob
    /\ Bob \notin DOMAIN before
    /\ (nick \in DOMAIN before => before[nick] # Bob)

(* C7: "!w bob" from U, when bob has no entry and U has not stored "bob",  *)
(* yields "bob" and stores it under U: the place rule takes the word       *)
(* before the nickname rule is tried.                                      *)
C7_AskBobIsAPlace ==
    AskBobFresh => /\ query = Some(Bob)
                   /\ nick \in DOMAIN nick_locations
                   /\ nick_locations[nick] = Bob

\* C7 as written: the answer is None
C7_AsWritten == AskBobFresh => query = None

C7_Witness == AskBobFresh /\ nick = UnderBob /\ query = Some(Bob)

-----------------------------------------------------------------------------

\* a single token that the bare, place and zip rules leave alone
FallsToNickRule(text) ==
    /\ TokenForm(text)
    /\ text # Trigger
    /\ re_location(text) = None
    /\ re_zip(text) = None

(* C8: a text "!w " + one token without digits or whitespace that the      *)
(* bare, place and zip rules did not take returns what is stored under     *)
(* that token, or None, and leaves the whole memory as it was.             *)
C8_NickRule ==
    (Resolved /\ FallsToNickRule(content)) =>
        /\ query = (IF Arg(content) \in DOMAIN before
                    THEN Some(before[Arg(content)]) ELSE None)
        /\ nick_locations = before

\* bob, who has no entry, looks up _bob, who has one
C8_Witness ==
    /\ Resolved
    /\ content = AskUnderBob
    /\ nick = Bob
    /\ Bob \notin DOMAIN nick_locations
    /\ UnderBob \in DOMAIN before
    /\ query = Some(before[UnderBob])

-----------------------------------------------------------------------------
(* C9: a nick is a key of the memory only if it has issued a command the   *)
(* place or zip rule resolved; the memory starts empty; a key once present *)
(* is never removed, whatever happens to the session.                      *)

C9_KeysOnlyGrow ==
    /\ [](DOMAIN nick_locations \subseteq DOMAIN last_resolved)
    /\ [](last_resolved = << >> => nick_locations = HashMapNew)
    /\ [][DOMAIN nick_locations \subseteq DOMAIN nick_locations']_vars

\* a new attempt after a session ended, with both keys still there
C9_Witness ==
    /\ pc = "connecting"
    /\ event = "end"
    /\ DOMAIN nick_locations = {Bob, UnderBob}

-----------------------------------------------------------------------------
(* C10: the messages of a successful reply are pieces of at most 400       *)
(* characters (none empty, all but the last of exactly 400) whose          *)
(* concatenation in sending order is the rendered text, and that text      *)
(* starts with "<requester>'s weather: ".                                  *)

C10_ChunksRebuildReply ==
    reply = "sent" =>
        /\ Concat(outbox) = full_response
        /\ \A i \in 1..Len(outbox) : Len(outbox[i]) \in 1..400
        /\ \A i \in 1..(Len(outbox) - 1) : Len(outbox[i]) = 400
        /\ SubSeq(full_response, 1, Len(nick) + 12) = nick \o <<"'", "s", " ", "w", "e", "a", "t", "h", "e", "r", ":", " ">>

\* a reply of 802 characters went out as 400 + 400 + 2
C10_Witness ==
    /\ reply = "sent"
    /\ Len(full_response) = 802
    /\ Len(outbox) = 3
    /\ Len(outbox[3]) = 2

-----------------------------------------------------------------------------
(* C11: an event that is not a PRIVMSG, or a PRIVMSG without a sender      *)
(* nickname, is ignored: nothing is sent, no fetch is started and the      *)
(* memory is left as it was.                                               *)
C11_IgnoredEvents ==
    [][(pc = "next" /\ event' \in {"other", "privmsg_no_nick"}) =>
          /\ nick_locations' = nick_locations
          /\ last_resolved' = last_resolved
          /\ outbox' = << >>
          /\ reply' = "none"
          /\ query' = None
          /\ pc' = "next"]_vars

\* a PRIVMSG without nickname was read while the memory held bob's entry
C11_Witness ==
    /\ event = "privmsg_no_nick"
    /\ pc = "next"
    /\ outbox = << >>
    /\ Bob \in DOMAIN nick_locations

-----------------------------------------------------------------------------

\* get_weather failed for the query of the handler record
FetchFailed == reply \in {"error_reported", "error_send_failed"}

\* the one report: the query and the text of the error
IsErrorReport(text) == \E e \in FetchErrors : text = ErrorText(query.val, e)

(* C12: when the fetch fails, the one send_privmsg reports the query and   *)
(* the error; if that send succeeds exactly one message has gone out and   *)
(* the session awaits the next event, if it fails none has gone out and    *)
(* the session is over; either way the fetch is not made again.            *)
C12_FetchFailureReportedOnce ==
    /\ [](reply = "error_reported" =>
              /\ Len(outbox) = 1
              /\ IsErrorReport(outbox[1])
              /\ pc = "next")
    /\ [](reply = "error_send_failed" => outbox = << >> /\ pc = "sleep")
    /\ [][(FetchFailed /\ pc' = "fetch") => (pc = "next" /\ event' = "privmsg"
                                              /\ reply' = "pending")]_vars

\* C12 as written: one message and a live session whenever the fetch fails
C12_AsWritten == FetchFailed => (Len(outbox) = 1 /\ pc = "next")

\* the report for bob's zip query is out and the next event is awaited
C12_Witness ==
    /\ reply = "error_reported"
    /\ nick = Bob
    /\ query = Some(Zip10001Query)
    /\ Len(outbox) = 1
    /\ pc = "next"

-----------------------------------------------------------------------------
(* C13: events are handled one at a time: a reply is pending exactly while *)
(* the task awaits the fetch; from there the only step is the one that     *)
(* sends the messages of that command, which reads no event and leaves     *)
(* the memory alone; and messages go out in no other step, so all          *)
(* messages of a command precede the reading of the next event.            *)
C13_OneEventAtATime ==
    /\ [](reply = "pending" <=> pc = "fetch")
    /\ [][pc = "fetch" =>
             /\ pc' # "fetch"
             /\ reply' # "pending"
             /\ event' = event
             /\ nick_locations' = nick_locations
             /\ <<channel', nick', content', query'>> =
                    <<channel, nick, content, query>>]_vars
    /\ [][(outbox' # outbox /\ outbox' # << >>) => pc = "fetch"]_vars
    /\ [][event' # event => pc # "fetch"]_vars

\* the three messages of one command are out and the next event can be read
C13_Witness ==
    /\ pc = "next"
    /\ reply = "sent"
    /\ Len(outbox) = 3
    /\ event = "privmsg"

-----------------------------------------------------------------------------

\* a step in which the task leaves the while-let loop of an active session
SessionLeft == InSession /\ pc' \notin {"next", "fetch"}

\* a step in which stream.next() yields a read error
ReadErrorStep == pc = "next" /\ event' = "read_error"

(* C14: a read error does not end the session: the task stays in the loop  *)
(* and awaits the next event; the session hands control back to run only   *)
(* when the stream has ended or when a send failed while replying.         *)
C14_ReadErrorKeepsSession ==
    /\ [][ReadErrorStep => (pc' = "next" /\ trace' = trace)]_vars
    /\ [][SessionLeft =>
             \/ event' = "end"
             \/ reply' \in {"send_failed", "error_send_failed"}]_vars

\* C14 as written: the session is left only when the stream has ended
C14_AsWritten ==
    /\ [][ReadErrorStep => (pc' = "next" /\ trace' = trace)]_vars
    /\ [][SessionLeft => event' = "end"]_vars

\* after a read error the session still awaits an event, the memory intact
C14_Witness ==
    /\ event = "read_error"
    /\ pc = "next"
    /\ Bob \in DOMAIN nick_locations

-----------------------------------------------------------------------------

\* the SessionState the position of the task stands for
SessionState(p) ==
    CASE p \in {"run", "sleep"}  -> "Disconnected"
      [] p = "connecting"        -> "Connecting"
      [] p \in {"next", "fetch"} -> "Active"
      [] OTHER                   -> "Returned"

\* the moves of the SessionState, a state staying as it is included
AllowedMove ==
    <<SessionState(pc), SessionState(pc')>> \in
        {<<"Disconnected", "Disconnected">>, <<"Disconnected", "Connecting">>,
         <<"Connecting", "Connecting">>, <<"Connecting", "Active">>,
         <<"Connecting", "Disconnected">>, <<"Active", "Active">>,
         <<"Active", "Disconnected">>}

\* a step that starts an establishment attempt
AttemptStarts ==
    SessionState(pc) # "Connecting" /\ SessionState(pc') = "Connecting"

\* a step that ends an attempt or a session
SessionEnds ==
    SessionState(pc) # "Disconnected" /\ SessionState(pc') = "Disconnected"

(* C15: there is one session at most, and its state moves only from        *)
(* Disconnected to Connecting, from Connecting to Active or back to        *)
(* Disconnected, and from Active to Disconnected; an attempt starts only   *)
(* from Disconnected and, unless it is the first of the process, only      *)
(* right after the 5 s delay that followed the end of the previous one.    *)
C15_SessionStateMachine ==
    /\ [][AllowedMove]_vars
    /\ [][AttemptStarts =>
             /\ pc = "run"
             /\ \/ trace = << >> /\ event = "none"
                \/ /\ trace # << >>
                   /\ trace[Len(trace)] = [kind |-> "delay", secs |-> 5]]_vars
    /\ [][SessionEnds => pc' = "sleep"]_vars

\* a second session is being established after the first ended and the
\* delay elapsed
C15_Witness ==
    /\ pc = "connecting"
    /\ event = "end"
    /\ trace = <<DelayMark, AttemptMark>>

-----------------------------------------------------------------------------

\* the whole text is one of the four command forms
CommandForm(text) ==
    text = Trigger \/ PlaceForm(text) \/ ZipForm(text) \/ TokenForm(text)

Paris123 == <<"!", "w", " ", "p", "a", "r", "i", "s", "1", "2", "3">>

ParisQuery == <<"p", "a", "r", "i", "s">>

(* C16: a text that is none of the four command forms resolves to None,    *)
(* leaves the memory as it was and causes no reply.  The patterns are      *)
(* searched anywhere in the text, so "!w paris123" from bob is resolved    *)
(* as the place "paris".                                                   *)
C16_AsWritten ==
    (Resolved /\ ~CommandForm(content)) =>
        /\ query = None
        /\ nick_locations = before
        /\ reply = "none"
        /\ pc = "next"

\* what the resolver does with "!w paris123"
C16_Observed ==
    (Resolved /\ content = Paris123) =>
        /\ query = Some(ParisQuery)
        /\ nick_locations[nick] = ParisQuery
        /\ pc = "fetch"

-----------------------------------------------------------------------------

\* no whitespace and no comma
UrlSafe(text) == \A i \in 1..Len(text) : text[i] \notin Whitespace \cup {","}

(* C17: every query of the place rule, and so every value it stores, has   *)
(* no whitespace and no comma, whatever text the rule accepts.  Only the   *)
(* space is replaced, so "!w b" + tab + "b" yields a query with a tab.     *)
C17_AsWritten ==
    (Resolved /\ PlaceForm(content)) =>
        /\ UrlSafe(query.val)
        /\ UrlSafe(nick_locations[nick])

-----------------------------------------------------------------------------
(* The chunking of send_weather_data on its own: a text of any length up   *)
(* to MaxTextLen, the empty one included, is cut and the pieces are sent.  *)

\* length of the longest text that is cut
MaxTextLen == 810

ChunkTexts == {Rendered(n) : n \in 0..MaxTextLen}

InitChunk ==
    /\ pc = "chunk"
    /\ full_response \in ChunkTexts
    /\ outbox = << >>
    /\ reply = "pending"
    /\ nick_locations = HashMapNew
    /\ last_resolved = << >>
    /\ trace = <<AttemptMark>>
    /\ fails = 0
    /\ event = "privmsg"
    /\ channel = "#weather"
    /\ nick = << >>
    /\ content = << >>
    /\ query = None
    /\ before = HashMapNew

\* the for loop over chunks(400), every send_privmsg succeeding
ChunkText ==
    /\ pc = "chunk"
    /\ outbox' = Chunks(full_response, ChunkSize)
    /\ reply' = "sent"
    /\ pc' = "chunked"
    /\ UNCHANGED <<nick_locations, trace, fails, event, channel, nick, content,
                   query, before, full_response, last_resolved>>

NextChunk == ChunkText

SpecChunk == InitChunk /\ [][NextChunk]_vars

-----------------------------------------------------------------------------

\* a send_privmsg failed while the reply to the last command was sent
SendFailed == reply \in {"send_failed", "error_send_failed"}

\* what went out is a beginning of the text, and not all of it
ProperPrefixSent ==
    /\ Len(Concat(outbox)) < Len(full_response)
    /\ Concat(outbox) = SubSeq(full_response, 1, Len(Concat(outbox)))
    /\ Len(outbox) < (Len(full_response) + 399) \div 400

\* a send fails in this step: the memory is left as it was
FailingSendKeepsMemory ==
    (pc = "fetch" /\ reply' \in {"send_failed", "error_send_failed"}) =>
        nick_locations' = nick_locations

\* the only step after a failed send is the delay elapsing: nothing more of
\* the reply goes out
OnlyDelayAfterFailure ==
    SendFailed =>
        /\ pc' = "run"
        /\ outbox' = << >>
        /\ trace' = <<[kind |-> "delay", secs |-> 5]>>

\* from the end of a session to the next establishment attempt the memory
\* is kept
MemoryKeptBetweenSessions ==
    pc \in {"sleep", "run"} => nick_locations' = nick_locations

(* C19: when a send fails while replying, the chunks after the failing one *)
(* are never sent, the session is abandoned although the stream has not    *)
(* ended, the memory is what it was before the failure, and after the 5 s  *)
(* delay a new establishment attempt is made with that same memory.        *)
C19_SendFailureAbandonsSession ==
    /\ [](SendFailed =>
             /\ pc = "sleep"
             /\ event = "privmsg"
             /\ (reply = "send_failed" => ProperPrefixSent)
             /\ (reply = "error_send_failed" => outbox = << >>))
    /\ [][FailingSendKeepsMemory]_vars
    /\ [][OnlyDelayAfterFailure]_vars
    /\ [][MemoryKeptBetweenSessions]_vars
    /\ SendFailed ~> (pc = "connecting")

\* the second of three sends failed: one chunk is out, the session is over
C19_Witness ==
    /\ reply = "send_failed"
    /\ pc = "sleep"
    /\ Len(full_response) = 802
    /\ Len(outbox) = 1
    /\ nick \in DOMAIN nick_locations

-----------------------------------------------------------------------------

\* the handler record is a place or zip command whose fetch is awaited or failed
StoredBeforeFetch ==
    /\ Resolved
    /\ PlaceForm(content) \/ ZipForm(content)
    /\ reply \in {"pending", "error_reported", "error_send_failed"}

\* the event read right after the failure was reported is a bare "!w" from
\* the same nick
BareAfterFailure ==
    /\ StoredBeforeFetch
    /\ reply = "error_reported"
    /\ pc = "next"
    /\ event' = "privmsg"
    /\ content' = Bare
    /\ nick' = nick

BareAfterFailureRefetches ==
    BareAfterFailure => (query' = query /\ pc' = "fetch")

(* C20: the memory is written when the command is resolved, before the     *)
(* fetch: while the fetch is awaited and after it failed the requester's   *)
(* entry is the query of that command, not the earlier value, and a bare   *)
(* "!w" from the same nick right after the failure yields that query and   *)
(* fetches it again.                                                       *)
C20_StoredDespiteFailure ==
    /\ [](StoredBeforeFetch =>
             /\ nick \in DOMAIN nick_locations
             /\ Some(nick_locations[nick]) = query)
    /\ [][BareAfterFailureRefetches]_vars

\* the fetch for "!w 10001" failed; the entry is the zip query, not the
\* New York query it replaced
C20_Witness ==
    /\ reply = "error_reported"
    /\ content = Zip10001
    /\ nick \in DOMAIN before
    /\ before[nick] = NewYorkPlusPlus
    /\ nick_locations[nick] = Zip10001Query

====
